---- MODULE Spec2Model ----
(***************************************************************************)
(* The midi_to_fft package: MidiRenderer (MIDI -> waveform),               *)
(* SpectrogramProcessor (waveform -> spectrogram) and MidiToFFTMap, the    *)
(* pipeline that calls one after the other and saves the result.           *)
(*                                                                         *)
(* Numbers.  A sample is an integer amplitude, or NonFinite for NaN/Inf.   *)
(* The Hann window is kept as 4*w[n], so a power spectrum value is 16x     *)
(* the real one; the transform sizes are those whose power spectrum is an  *)
(* integer (2, 3, 4).  A decibel value is an integer, rounded down.        *)
(*                                                                         *)
(* The two tools around it: musicxml-pdf (MusicXMLtoPDFConverter, which    *)
(* runs LilyPond as a child process, and convert_musicxml_to_pdf, which    *)
(* runs MuseScore) and midi-musicxml (MidiToMusicXMLConverter).  A         *)
(* duration is kept in eighths of a quarter note.                          *)
(***************************************************************************)
EXTENDS Integers, Sequences, FiniteSets, TLC

VARIABLES
    config,        \* the AudioConfig the pipeline is built from
    bankExists,    \* whether a file exists at soundfont_path
    pipeline,      \* "none", or "built" once MidiToFFTMap.__init__ returned
    ctorErr,       \* the error MidiToFFTMap.__init__ raised, or None
    existsChecks,  \* how often MidiRenderer has run os.path.exists on the bank
    pc,            \* the position of the process call
    args,          \* the arguments of the process call
    audio,         \* the waveform render produced, or Nothing
    fft_map,       \* the array compute returned, or Nothing
    exc,           \* the exception a stage raised, or Nothing
    err,           \* the exception the caller of process received, or Nothing
    result,        \* the array the caller of process received, or Nothing
    files,         \* the output files: path -> content
    filesAtCall,   \* files as they were when the call started
    trace,         \* the stage events of the current call, in order
    renderer_sample_rate,  \* self.renderer.sample_rate, 0 before construction
    bankLoads,     \* how often the engine has loaded the bank (up to MaxLoads)
    prev,          \* the last call that ended, where the run keeps that record
    other,         \* a second process invocation on the same pipeline
    \* musicxml-pdf
    lilyAt,        \* what is at the path given for LilyPond
    lilypond_path, \* self.lilypond_path of MusicXMLtoPDFConverter
    lily_pc,       \* the position of MusicXMLtoPDFConverter.__init__
    lily_err,      \* the error __init__ raised, or None
    versionRun,    \* how the `--version` child process ended, or Nothing
    pdfs,          \* the PDF files in the output directory
    cf,            \* the last convert_file call and how it ended, or Nothing
    ms,            \* the last convert_musicxml_to_pdf call, or Nothing
    input_files,   \* batch_convert: its argument
    results,       \* batch_convert: the local list results
    attempted,     \* batch_convert: the inputs handed to convert_file, in order
    bc_pc,         \* the position of the batch_convert call
    \* midi-musicxml
    listing,       \* os.listdir(input_dir), in the order it yields the entries
    all_files,     \* args.all_files
    midi_extensions,  \* self.midi_extensions of MidiToMusicXMLConverter
    midi_files,    \* convert_batch: the files collected
    successful,    \* convert_batch: the local counter successful
    failed,        \* convert_batch: the local counter failed
    tried,         \* convert_batch: the files handed to convert_single_file
    prompts,       \* how often the user has been asked to confirm
    cb_pc,         \* the position of main / convert_batch
    durations,     \* the quarterLength of every note of the score
    passes         \* how often enhance_score has run on the score

pipelineVars == <<config, bankExists, pipeline, ctorErr, existsChecks, pc, args,
                  audio, fft_map, exc, err, result, files, filesAtCall, trace,
                  renderer_sample_rate, bankLoads, prev, other>>
engraverVars == <<lilyAt, lilypond_path, lily_pc, lily_err, versionRun, pdfs, cf,
                  ms, input_files, results, attempted, bc_pc>>
batchVars == <<listing, all_files, midi_extensions, midi_files, successful, failed, tried,
               prompts, cb_pc>>
scoreVars == <<durations, passes>>
toolVars == <<engraverVars, batchVars, scoreVars>>

vars == <<pipelineVars, toolVars>>

----------------------------------------------------------------------------
(* Bounds of the model *)

MaxLen == 3
MaxMels == 2
MaxLoads == 2
MaxFiles == 2
MaxEntries == 3
MaxNotes == 2
MaxDuration == 33
MaxPasses == 2

----------------------------------------------------------------------------
(* Values *)

NonFinite == 1000
Amplitudes == {-1, 0, 1}
SampleValues == Amplitudes \cup {NonFinite}
Waveforms == UNION {[1..n -> SampleValues] : n \in 0..MaxLen}

NFftValues == {2, 3, 4}
SampleRate == 22050
SampleRates == {SampleRate, 2 * SampleRate}

\* AudioConfig(...): the dataclass holds no __post_init__, so every
\* combination of field values is an instance.
AudioConfig ==
    [sample_rate : {SampleRate}, n_fft : NFftValues, hop_length : 0..4,
     win_length : 1..4, n_mels : 1..MaxMels, use_mel : BOOLEAN,
     log_scale : BOOLEAN]

Max(a, b) == IF a >= b THEN a ELSE b
Abs(a) == IF a >= 0 THEN a ELSE -a

RECURSIVE SumTo(_, _)
\* f[1] + ... + f[n]
SumTo(f, n) == IF n = 0 THEN 0 ELSE f[n] + SumTo(f, n - 1)

\* The largest entry of a two-dimensional array (np.max).
MaxOf(S) == CHOOSE v \in {S[k][t] : k \in DOMAIN S, t \in DOMAIN S[1]} :
               \A k \in DOMAIN S : \A t \in DOMAIN S[1] : S[k][t] <= v

----------------------------------------------------------------------------
(* librosa.stft(y, n_fft, hop_length, win_length), center=True,            *)
(* pad_mode="constant", window="hann"                                      *)

\* util.valid_audio: every sample is finite.
IsFinite(y) == \A i \in 1..Len(y) : y[i] # NonFinite

\* center=False: the signal is not padded.
PadWidthNone(n_fft) == 0

\* The samples added on each side of the signal (center=True).
PadWidth(n_fft) == n_fft \div 2

\* All the padding put after the signal, none before it.
PaddedIndexTail(L, n_fft) ==
    [p \in 1..(L + 2 * PadWidth(n_fft)) |-> IF p > L THEN 0 ELSE p]

\* For each position of the padded signal, the index (1-based) of the sample of
\* y it holds, or 0 where it holds padding.
PaddedIndex(L, n_fft) ==
    [p \in 1..(L + 2 * PadWidth(n_fft)) |->
        IF p <= PadWidth(n_fft) \/ p > PadWidth(n_fft) + L
        THEN 0 ELSE p - PadWidth(n_fft)]

\* util.frame: the number of frames of length n_fft, hop_length apart, that fit.
NumFrames(L, n_fft, hop_length) ==
    1 + (Len(PaddedIndex(L, n_fft)) - n_fft) \div hop_length

\* The sample indices frame t (0-based) holds, position by position.
FrameIndex(L, n_fft, hop_length, t) ==
    [n \in 1..n_fft |-> PaddedIndex(L, n_fft)[t * hop_length + n]]

\* get_window("hann", win_length, fftbins=True), times 4.
HannWindow(win_length) ==
    CASE win_length = 1 -> <<4>>
      [] win_length = 2 -> <<0, 4>>
      [] win_length = 3 -> <<0, 3, 3>>
      [] win_length = 4 -> <<0, 2, 4, 2>>

\* util.pad_center(fft_window, size=n_fft).
PadCenter(w, n_fft) ==
    LET lpad == (n_fft - Len(w)) \div 2
    IN  [n \in 1..n_fft |->
            IF n <= lpad \/ n > lpad + Len(w) THEN 0 ELSE w[n - lpad]]

\* Frame t of y, windowed.
WindowedFrame(y, cfg, t) ==
    LET idx == FrameIndex(Len(y), cfg.n_fft, cfg.hop_length, t)
        w == PadCenter(HannWindow(cfg.win_length), cfg.n_fft)
    IN  [n \in 1..cfg.n_fft |-> w[n] * (IF idx[n] = 0 THEN 0 ELSE y[idx[n]])]

\* |rfft(x)[k]|^2 for a frame x of 2, 3 or 4 samples (k is 0-based).
PowerBin(x, k) ==
    CASE Len(x) = 2 /\ k = 0 -> (x[1] + x[2]) * (x[1] + x[2])
      [] Len(x) = 2 /\ k = 1 -> (x[1] - x[2]) * (x[1] - x[2])
      [] Len(x) = 3 /\ k = 0 -> (x[1] + x[2] + x[3]) * (x[1] + x[2] + x[3])
      [] Len(x) = 3 /\ k = 1 -> x[1] * x[1] + x[2] * x[2] + x[3] * x[3]
                                - x[1] * x[2] - x[2] * x[3] - x[1] * x[3]
      [] Len(x) = 4 /\ k = 0 -> (x[1] + x[2] + x[3] + x[4])
                                * (x[1] + x[2] + x[3] + x[4])
      [] Len(x) = 4 /\ k = 1 -> (x[1] - x[3]) * (x[1] - x[3])
                                + (x[2] - x[4]) * (x[2] - x[4])
      [] Len(x) = 4 /\ k = 2 -> (x[1] - x[2] + x[3] - x[4])
                                * (x[1] - x[2] + x[3] - x[4])

\* The number of frequency bins of the transform.
NumBins(n_fft) == 1 + n_fft \div 2

\* The power spectrogram |stft|^2, bins x frames.
PowerSpectrogram(y, cfg) ==
    [k \in 1..NumBins(cfg.n_fft) |->
        [t \in 1..NumFrames(Len(y), cfg.n_fft, cfg.hop_length) |->
            PowerBin(WindowedFrame(y, cfg, t - 1), k - 1)]]

\* The square root, rounded down.
ISqrt(p) == CHOOSE r \in 0..p : r * r <= p /\ p < (r + 1) * (r + 1)

\* np.abs(librosa.stft(...)): the magnitude spectrogram.
MagnitudeSpectrogram(y, cfg) ==
    LET P == PowerSpectrogram(y, cfg)
    IN  [k \in DOMAIN P |-> [t \in DOMAIN P[k] |-> ISqrt(P[k][t])]]

----------------------------------------------------------------------------
(* librosa.feature.melspectrogram and librosa.power_to_db                  *)

\* filters.mel: one triangular, non-negative filter per mel band over the bins
\* (integer weights; band m peaks at its share of the bin axis).
MelBasis(n_mels, n_fft) ==
    LET nb == NumBins(n_fft)
    IN  [m \in 1..n_mels |->
            [k \in 1..nb |->
                Max(0, (nb + n_mels) - Abs((n_mels + 1) * (k - 1) - m * (nb - 1)))]]

\* melspectrogram(y, ...), power=2.0: the mel filters applied to |stft|^2.
MelSpectrogram(y, cfg) ==
    LET P == PowerSpectrogram(y, cfg)
        M == MelBasis(cfg.n_mels, cfg.n_fft)
    IN  [m \in 1..cfg.n_mels |->
            [t \in DOMAIN P[1] |->
                SumTo([k \in DOMAIN P |-> M[m][k] * P[k][t]], Len(P))]]

TopDb == 80
AminDb == -100

RECURSIVE TenLog10(_)
\* 10*log10(v) for an integer v >= 1, rounded down.
TenLog10(v) ==
    IF v < 10 THEN <<0, 3, 4, 6, 6, 7, 8, 9, 9>>[v]
    ELSE 10 + TenLog10(v \div 10)

\* 10*log10(max(amin, v)), amin = 1e-10.
DbOf(v) == IF v <= 0 THEN AminDb ELSE TenLog10(v)

\* top_db=None: no value is raised.
DbFloorNone(peak) == 2 * AminDb

\* The lowest value power_to_db lets through: top_db below the peak.
DbFloor(peak) == peak - TopDb

\* power_to_db(S, ref=np.max): decibels relative to the largest entry, no
\* entry more than top_db below the largest.
PowerToDb(S) ==
    LET ref == MaxOf(S)
        log_spec == [k \in DOMAIN S |-> [t \in DOMAIN S[k] |-> DbOf(S[k][t]) - DbOf(ref)]]
    IN  [k \in DOMAIN S |->
            [t \in DOMAIN S[k] |-> Max(log_spec[k][t], DbFloor(MaxOf(log_spec)))]]

----------------------------------------------------------------------------
(* SpectrogramProcessor.compute                                            *)

None == "None"
\* A variable that holds no value yet, and one that holds v.
Nothing == <<>>
Some(v) == <<v>>
Ok(v) == [kind |-> "ok", value |-> v]
Raise(stage, e) == [kind |-> "raise", stage |-> stage, error |-> e]

\* The spectrogram before the log scaling: mel or linear-frequency magnitude.
Spectrogram(y, cfg) ==
    IF cfg.use_mel THEN MelSpectrogram(y, cfg) ELSE MagnitudeSpectrogram(y, cfg)

\* The log scaling, when the config asks for it.
LogScale(S, cfg) == IF cfg.log_scale THEN PowerToDb(S) ELSE S

\* compute(audio): the array, or the error librosa raises (stft on a
\* hop_length that is not positive; valid_audio on a non-finite buffer;
\* pad_center on a window longer than n_fft; util.frame on a padded signal
\* shorter than one frame). astype(np.float32) changes no value of this range.
Compute(cfg, y) ==
    IF cfg.hop_length < 1 THEN Raise("compute", "ParameterError")
    ELSE IF ~IsFinite(y) THEN Raise("compute", "ParameterError")
    ELSE IF cfg.win_length > cfg.n_fft THEN Raise("compute", "ParameterError")
    ELSE IF NumFrames(Len(y), cfg.n_fft, cfg.hop_length) < 1
         THEN Raise("compute", "ParameterError")
    ELSE Ok(LogScale(Spectrogram(y, cfg), cfg))

\* The shape of an array: (frequency_bins, time_frames).
Shape(S) == <<Len(S), Len(S[1])>>

----------------------------------------------------------------------------
(* The files the pipeline reads and writes                                 *)

\* The score files: a MIDI file with notes, one with no instrument, one that
\* is no MIDI file, one whose largest tick is beyond what pretty_midi accepts,
\* and a path where there is no file.
MidiPaths == {"song.mid", "silent.mid", "corrupt.mid", "overlong.mid",
              "missing.mid"}

WavPaths == {"out.wav", "ro/out.wav"}
FftPaths == {"out.npy", "out", "ro/out.npy"}
FilePaths == {"out.wav", "out.npy", "out", "b.wav", "b.npy"}
NoFile == <<>>

\* A path in a directory that cannot be written to.
Writable(p) == p \notin {"ro/out.wav", "ro/out.npy"}

\* `if output_wav:` / `if output_fft:` - None and "" are no path.
Given(p) == p \notin {None, ""}

\* A score that cannot be read taken for a score with no instrument.
ParseMidiLenient(p) ==
    IF p \in {"missing.mid", "corrupt.mid", "overlong.mid"}
    THEN Ok("silent.mid") ELSE Ok(p)

\* pretty_midi.PrettyMIDI(midi_path): the parsed score, or the error of the
\* open() or of the parser.
ParseMidi(p) ==
    CASE p = "missing.mid" -> Raise("render", "FileNotFoundError")
      [] p = "corrupt.mid" -> Raise("render", "OSError")
      [] p = "overlong.mid" -> Raise("render", "ValueError")
      [] p \in {"song.mid", "silent.mid"} -> Ok(p)

\* The notes of a parsed score, one amplitude per 1/22050 s.
Notes(score) ==
    CASE score = "song.mid" -> <<1, 0, -1>>
      [] score = "silent.mid" -> <<>>

\* The waveform the synthesizer produces for a parsed score at rate fs: fs
\* samples per second of the score (np.array([]) for a score with no
\* instrument).
Synthesized(score, fs) ==
    LET k == fs \div SampleRate
    IN  [i \in 1..(k * Len(Notes(score))) |-> Notes(score)[(i - 1) \div k + 1]]

\* midi.fluidsynth(fs, sf2_path): a score with no instrument gives the empty
\* array before the bank is looked at; otherwise the engine needs the bank.
FluidSynth(score, fs, bank) ==
    IF Synthesized(score, fs) = <<>> THEN Ok(<<>>)
    ELSE IF ~bank THEN Raise("render", "ValueError")
    ELSE Ok(Synthesized(score, fs))

\* Instrument.fluidsynth loads the bank (fl.sfload(sf2_path)) each time a score
\* with an instrument is synthesized.
EngineLoadsBank(score, bank) == Notes(score) # <<>> /\ bank

\* The file opened for appending: the samples added to those it holds.
SfWriteAppend(p, y, fs) ==
    IF ~Writable(p) THEN Raise("render", "LibsndfileError")
    ELSE IF files[p] = NoFile THEN Ok(<<"wav", fs, y>>)
    ELSE Ok(<<"wav", fs, files[p][3] \o y>>)

\* The file written with the default rate in its header, not the rate given.
SfWriteAtDefaultRate(p, y, fs) ==
    IF Writable(p) THEN Ok(<<"wav", SampleRate, y>>)
    ELSE Raise("render", "LibsndfileError")

\* sf.write(output_wav, audio, sample_rate): the file's new content, or the
\* error of a path that cannot be written.
SfWrite(p, y, fs) ==
    IF Writable(p) THEN Ok(<<"wav", fs, y>>) ELSE Raise("render", "LibsndfileError")

\* np.save appends ".npy" to a file name that does not end with it.
NpyName(p) == IF p = "out" THEN "out.npy" ELSE p

\* np.save(output_fft, fft_map).
NpSave(p, S) ==
    IF Writable(p) THEN Ok(<<"npy", S>>) ELSE Raise("save", "OSError")

----------------------------------------------------------------------------
(* MidiToFFTMap.__init__ and MidiRenderer.__init__                         *)

\* The check left out.
PathExistsSkipped(exists) == TRUE

\* os.path.exists(soundfont_path)
PathExists(exists) == exists

\* The configs the pipeline is built from, log_scale at its default: the
\* window as long as the transform, and one with a window that is longer.
PipelineConfigs ==
    {c \in AudioConfig : c.n_fft \in {3, 4} /\ c.win_length = c.n_fft
                         /\ c.hop_length = 2 /\ c.n_mels = MaxMels
                         /\ c.log_scale}
    \cup {c \in AudioConfig : c.n_fft = 3 /\ c.win_length = 4
                               /\ c.hop_length = 2 /\ c.n_mels = MaxMels
                               /\ c.log_scale /\ c.use_mel}

NoArgs == [midi_path |-> None, output_wav |-> None, output_fft |-> None]

\* prev where no record of the calls is kept, where one is kept and no call has
\* ended yet, and the record of a call that ended.
NoRecord == <<>>
NoCallYet == <<0, 0>>
Ended(a, r, e, f) == <<[args |-> a, result |-> r, err |-> e, files |-> f]>>
Recorded(a, r, e, f) == IF prev = NoRecord THEN NoRecord ELSE Ended(a, r, e, f)

\* The second invocation before it is called.
OtherIdle == [pc |-> "idle", args |-> NoArgs, audio |-> Nothing, fft_map |-> Nothing,
              exc |-> Nothing, err |-> Nothing, result |-> Nothing]

\* The tools around the pipeline, not started.
EngraverUnused ==
    /\ lilyAt = "file"
    /\ lilypond_path = None
    /\ lily_pc = "none"
    /\ lily_err = None
    /\ versionRun = Nothing
    /\ pdfs = {}
    /\ cf = Nothing
    /\ ms = Nothing
    /\ input_files = <<>>
    /\ results = <<>>
    /\ attempted = <<>>
    /\ bc_pc = "idle"

BatchUnused ==
    /\ listing = <<>>
    /\ all_files = FALSE
    /\ midi_extensions = {}
    /\ midi_files = <<>>
    /\ successful = 0
    /\ failed = 0
    /\ tried = <<>>
    /\ prompts = 0
    /\ cb_pc = "none"

ScoreUnused ==
    /\ durations = <<>>
    /\ passes = 0

ToolsUnused == EngraverUnused /\ BatchUnused /\ ScoreUnused

Init ==
    /\ config \in PipelineConfigs
    /\ bankExists \in BOOLEAN
    /\ pipeline = "none"
    /\ ctorErr = None
    /\ existsChecks = 0
    /\ pc = "idle"
    /\ args = NoArgs
    /\ audio = Nothing
    /\ fft_map = Nothing
    /\ exc = Nothing
    /\ err = Nothing
    /\ result = Nothing
    /\ files = [p \in FilePaths |-> NoFile]
    /\ filesAtCall = [p \in FilePaths |-> NoFile]
    /\ trace = <<>>
    /\ renderer_sample_rate = 0
    /\ bankLoads = 0
    /\ prev = NoRecord
    /\ other = OtherIdle
    /\ ToolsUnused

\* MidiToFFTMap(soundfont_path, config): MidiRenderer.__init__ checks the bank
\* and raises, or the renderer and the processor are stored.
Construct ==
    /\ pipeline = "none"
    /\ ctorErr = None
    /\ existsChecks' = existsChecks + 1
    /\ IF PathExists(bankExists)
       THEN pipeline' = "built" /\ ctorErr' = None
       ELSE pipeline' = "none" /\ ctorErr' = "FileNotFoundError"
    /\ UNCHANGED <<config, bankExists, pc, args, audio, fft_map, exc, err, result,
                   files, filesAtCall, trace>>
    /\ renderer_sample_rate' = IF PathExists(bankExists) THEN config.sample_rate ELSE 0
    /\ UNCHANGED <<bankLoads, prev, other>>
    /\ UNCHANGED toolVars

\* The fields of the config the caller assigns, with the values assigned.
ConfigAssignments ==
    ({"sample_rate"} \X SampleRates) \cup ({"log_scale"} \X BOOLEAN)

\* config.<field> = value: AudioConfig is a plain dataclass, the assignment
\* takes effect on the instance the processor holds.
SetField(cfg, field, value) == [cfg EXCEPT ![field] = value]

\* The caller assigns a field of the config, before or after the pipeline was
\* built from it.
AssignConfig(field, value) ==
    /\ pc \in {"idle", "returned", "raised"}
    /\ config' = SetField(config, field, value)
    /\ UNCHANGED <<bankExists, pipeline, ctorErr, existsChecks, pc, args, audio,
                   fft_map, exc, err, result, files, filesAtCall, trace,
                   renderer_sample_rate, bankLoads, prev, other>>
    /\ UNCHANGED toolVars

\* The environment removes the bank file after the pipeline was built.
RemoveBank ==
    /\ pipeline = "built"
    /\ bankExists
    /\ pc \in {"idle", "returned", "raised"}
    /\ bankExists' = FALSE
    /\ UNCHANGED <<config, pipeline, ctorErr, existsChecks, pc, args, audio,
                   fft_map, exc, err, result, files, filesAtCall, trace>>
    /\ UNCHANGED <<renderer_sample_rate, bankLoads, prev, other>>
    /\ UNCHANGED toolVars

----------------------------------------------------------------------------
(* MidiToFFTMap.process, statement by statement                            *)

\* The return placed right after render: compute and the save are skipped.
StageAfterEarlyReturn(stage) == "return"

\* A cache: compute and the save skipped when the previous call had the same
\* arguments.
StageAfterCached(stage) ==
    IF stage = "render" /\ Len(prev) = 1 /\ prev[1].args = args THEN "return"
    ELSE CASE stage = "render" -> "compute"
           [] stage = "compute" -> "save"
           [] stage = "save" -> "return"

\* The statement process runs after a stage has returned.
StageAfter(stage) ==
    CASE stage = "render" -> "compute"
      [] stage = "compute" -> "save"
      [] stage = "save" -> "return"

\* The exception caught and another one raised in its place.
PropagateWrapped(e) == [e EXCEPT !.error = "RuntimeError"]

\* process and render hold no try/except: the exception a stage raises is the
\* one the caller of process receives.
Propagate(e) == e

\* pipeline.process(midi_path, output_wav, output_fft) is called.
CallProcess(midi_path, output_wav, output_fft) ==
    /\ pipeline = "built"
    /\ pc \in {"idle", "returned", "raised"}
    /\ pc' = "render_parse"
    /\ args' = [midi_path |-> midi_path, output_wav |-> output_wav,
                output_fft |-> output_fft]
    /\ audio' = Nothing /\ fft_map' = Nothing /\ exc' = Nothing
    /\ err' = Nothing /\ result' = Nothing
    /\ filesAtCall' = files
    /\ trace' = <<"render">>
    /\ UNCHANGED <<config, bankExists, pipeline, ctorErr, existsChecks, files>>
    /\ UNCHANGED <<renderer_sample_rate, bankLoads, prev, other>>
    /\ UNCHANGED toolVars

\* render, line 19: the score is parsed.
RenderParse ==
    /\ pc = "render_parse"
    /\ LET r == ParseMidi(args.midi_path)
       IN  IF r.kind = "ok"
           THEN pc' = "render_synth" /\ exc' = exc /\ trace' = trace
           ELSE pc' = "unwind" /\ exc' = Some(r) /\ trace' = Append(trace, "render_raise")
    /\ UNCHANGED <<config, bankExists, pipeline, ctorErr, existsChecks, args,
                   audio, fft_map, err, result, files, filesAtCall>>
    /\ UNCHANGED <<renderer_sample_rate, bankLoads, prev, other>>
    /\ UNCHANGED toolVars

\* render, lines 20-23: the score is synthesized at the renderer's sample rate.
RenderSynth ==
    /\ pc = "render_synth"
    /\ LET midi == ParseMidi(args.midi_path).value
           r == FluidSynth(midi, renderer_sample_rate, bankExists)
       IN  IF r.kind = "ok"
           THEN pc' = "render_write" /\ audio' = Some(r.value) /\ exc' = exc
                /\ trace' = trace
           ELSE pc' = "unwind" /\ audio' = audio /\ exc' = Some(r)
                /\ trace' = Append(trace, "render_raise")
    /\ UNCHANGED <<config, bankExists, pipeline, ctorErr, existsChecks, args,
                   fft_map, err, result, files, filesAtCall>>
    /\ bankLoads' = IF EngineLoadsBank(ParseMidi(args.midi_path).value, bankExists)
                     /\ bankLoads < MaxLoads
                  THEN bankLoads + 1 ELSE bankLoads
    /\ UNCHANGED <<renderer_sample_rate, prev, other>>
    /\ UNCHANGED toolVars

\* render, lines 25-28: the waveform is written when a path is given, and
\* returned.
RenderWrite ==
    /\ pc = "render_write"
    /\ LET r == IF Given(args.output_wav)
                THEN SfWrite(args.output_wav, audio[1], renderer_sample_rate)
                ELSE Ok(NoFile)
       IN  IF r.kind = "ok"
           THEN /\ pc' = StageAfter("render")
                /\ files' = IF Given(args.output_wav)
                            THEN [files EXCEPT ![args.output_wav] = r.value]
                            ELSE files
                /\ exc' = exc
                /\ trace' = Append(trace, "render_ret")
           ELSE /\ pc' = "unwind"
                /\ files' = files
                /\ exc' = Some(r)
                /\ trace' = Append(trace, "render_raise")
    /\ UNCHANGED <<config, bankExists, pipeline, ctorErr, existsChecks, args,
                   audio, fft_map, err, result, filesAtCall>>
    /\ UNCHANGED <<renderer_sample_rate, bankLoads, prev, other>>
    /\ UNCHANGED toolVars

\* The waveform read back from the file at out.wav when there is one.
ProcessAudioFromFile ==
    IF files["out.wav"] # NoFile THEN files["out.wav"][3] ELSE audio[1]

\* The argument of compute: the local variable audio of process.
ProcessAudio == audio[1]

\* process, line 31: fft_map = self.processor.compute(audio).
ComputeStep ==
    /\ pc = "compute"
    /\ LET r == Compute(config, ProcessAudio)
       IN  IF r.kind = "ok"
           THEN /\ pc' = StageAfter("compute")
                /\ fft_map' = Some(r.value)
                /\ exc' = exc
                /\ trace' = trace \o <<"compute", "compute_ret">>
           ELSE /\ pc' = "unwind"
                /\ fft_map' = fft_map
                /\ exc' = Some(r)
                /\ trace' = trace \o <<"compute", "compute_raise">>
    /\ UNCHANGED <<config, bankExists, pipeline, ctorErr, existsChecks, args,
                   audio, err, result, files, filesAtCall>>
    /\ UNCHANGED <<renderer_sample_rate, bankLoads, prev, other>>
    /\ UNCHANGED toolVars

\* process, lines 33-34: the array is saved when a path is given.
SaveStep ==
    /\ pc = "save"
    /\ IF Given(args.output_fft)
       THEN LET r == NpSave(args.output_fft, fft_map[1])
            IN  IF r.kind = "ok"
                THEN /\ pc' = StageAfter("save")
                     /\ files' = [files EXCEPT ![NpyName(args.output_fft)] = r.value]
                     /\ exc' = exc
                     /\ trace' = trace \o <<"save", "save_ret">>
                ELSE /\ pc' = "unwind"
                     /\ files' = files
                     /\ exc' = Some(r)
                     /\ trace' = trace \o <<"save", "save_raise">>
       ELSE /\ pc' = StageAfter("save")
            /\ UNCHANGED <<files, exc, trace>>
    /\ UNCHANGED <<config, bankExists, pipeline, ctorErr, existsChecks, args,
                   audio, fft_map, err, result, filesAtCall>>
    /\ UNCHANGED <<renderer_sample_rate, bankLoads, prev, other>>
    /\ UNCHANGED toolVars

\* process, line 36: return fft_map.
ReturnStep ==
    /\ pc = "return"
    /\ pc' = "returned"
    /\ result' = fft_map
    /\ trace' = Append(trace, "return")
    /\ UNCHANGED <<config, bankExists, pipeline, ctorErr, existsChecks, args,
                   audio, fft_map, exc, err, files, filesAtCall>>
    /\ prev' = Recorded(args, fft_map, err, files)
    /\ UNCHANGED <<renderer_sample_rate, bankLoads, other>>
    /\ UNCHANGED toolVars

\* The failed call takes back the files it has written.
UnwindRollback ==
    /\ pc = "unwind"
    /\ pc' = "raised"
    /\ err' = Some(Propagate(exc[1]))
    /\ files' = filesAtCall
    /\ UNCHANGED <<config, bankExists, pipeline, ctorErr, existsChecks, args,
                   audio, fft_map, exc, result, filesAtCall, trace>>
    /\ prev' = Recorded(args, result, Some(Propagate(exc[1])), filesAtCall)
    /\ UNCHANGED <<renderer_sample_rate, bankLoads, other>>
    /\ UNCHANGED toolVars

\* The failed call leaves the renderer without its sample rate.
UnwindPoisoned ==
    /\ pc = "unwind"
    /\ pc' = "raised"
    /\ err' = Some(Propagate(exc[1]))
    /\ UNCHANGED <<config, bankExists, pipeline, ctorErr, existsChecks, args,
                   audio, fft_map, exc, result, files, filesAtCall, trace>>
    /\ prev' = Recorded(args, result, Some(Propagate(exc[1])), files)
    /\ renderer_sample_rate' = 0
    /\ UNCHANGED <<bankLoads, other>>
    /\ UNCHANGED toolVars

\* An exception leaves render and process and reaches the caller.
Unwind ==
    /\ pc = "unwind"
    /\ pc' = "raised"
    /\ err' = Some(Propagate(exc[1]))
    /\ UNCHANGED <<config, bankExists, pipeline, ctorErr, existsChecks, args,
                   audio, fft_map, exc, result, files, filesAtCall, trace>>
    /\ prev' = Recorded(args, result, Some(Propagate(exc[1])), files)
    /\ UNCHANGED <<renderer_sample_rate, bankLoads, other>>
    /\ UNCHANGED toolVars

Next ==
    \/ Construct
    \/ RemoveBank
    \/ \E a \in ConfigAssignments : AssignConfig(a[1], a[2])
    \/ \E m \in MidiPaths, w \in WavPaths \cup {None}, f \in FftPaths \cup {None} :
          CallProcess(m, w, f)
    \/ RenderParse
    \/ RenderSynth
    \/ RenderWrite
    \/ ComputeStep
    \/ SaveStep
    \/ ReturnStep
    \/ Unwind

Spec == Init /\ [][Next]_vars

----------------------------------------------------------------------------
(* Calls one after the other on a pipeline nobody else touches, with a     *)
(* record of the call that ended last                                      *)

InitTwice ==
    /\ config \in PipelineConfigs
    /\ bankExists = TRUE
    /\ pipeline = "none"
    /\ ctorErr = None
    /\ existsChecks = 0
    /\ pc = "idle"
    /\ args = NoArgs
    /\ audio = Nothing
    /\ fft_map = Nothing
    /\ exc = Nothing
    /\ err = Nothing
    /\ result = Nothing
    /\ files = [p \in FilePaths |-> NoFile]
    /\ filesAtCall = [p \in FilePaths |-> NoFile]
    /\ trace = <<>>
    /\ renderer_sample_rate = 0
    /\ bankLoads = 0
    /\ prev = NoCallYet
    /\ other = OtherIdle
    /\ ToolsUnused

NextTwice ==
    \/ Construct
    \/ \E m \in {"song.mid", "silent.mid", "missing.mid"},
          w \in {None, "out.wav", "ro/out.wav"},
          f \in {None, "out", "ro/out.npy"} : CallProcess(m, w, f)
    \/ RenderParse
    \/ RenderSynth
    \/ RenderWrite
    \/ ComputeStep
    \/ SaveStep
    \/ ReturnStep
    \/ Unwind

SpecTwice == InitTwice /\ [][NextTwice]_vars

----------------------------------------------------------------------------
(* Two invocations of process in flight on one pipeline: the variables of  *)
(* the call hold the locals of the thread that runs, other those of the    *)
(* thread that waits                                                       *)

Locals ==
    [pc |-> pc, args |-> args, audio |-> audio, fft_map |-> fft_map,
     exc |-> exc, err |-> err, result |-> result]

\* audio kept in one place for both invocations, not in a local of each: the
\* thread that resumes finds the waveform the other one rendered.
SwitchSharedAudio ==
    /\ pipeline = "built"
    /\ other' = Locals
    /\ pc' = other.pc /\ args' = other.args
    /\ audio' = IF audio # Nothing THEN audio ELSE other.audio
    /\ fft_map' = other.fft_map /\ exc' = other.exc
    /\ err' = other.err /\ result' = other.result
    /\ UNCHANGED <<config, bankExists, pipeline, ctorErr, existsChecks, files,
                   filesAtCall, trace, renderer_sample_rate, bankLoads, prev>>
    /\ UNCHANGED toolVars

\* The scheduler suspends the running invocation and resumes the other one:
\* each finds its own locals again.
Switch ==
    /\ pipeline = "built"
    /\ other' = Locals
    /\ pc' = other.pc /\ args' = other.args
    /\ audio' = other.audio
    /\ fft_map' = other.fft_map /\ exc' = other.exc
    /\ err' = other.err /\ result' = other.result
    /\ UNCHANGED <<config, bankExists, pipeline, ctorErr, existsChecks, files,
                   filesAtCall, trace, renderer_sample_rate, bankLoads, prev>>
    /\ UNCHANGED toolVars

\* A thread calls process once, on a score and on output paths the other
\* thread's call does not name.
CallConcurrently(midi_path, output_wav, output_fft) ==
    /\ pc = "idle"
    /\ midi_path # other.args.midi_path
    /\ Given(output_wav) => output_wav # other.args.output_wav
    /\ Given(output_fft) => NpyName(output_fft) # NpyName(other.args.output_fft)
    /\ CallProcess(midi_path, output_wav, output_fft)

NextPar ==
    \/ Construct
    \/ \E m \in {"song.mid", "silent.mid", "missing.mid"}, w \in {None, "out.wav", "b.wav"},
          f \in {None, "out", "b.npy"} : CallConcurrently(m, w, f)
    \/ Switch
    \/ RenderParse
    \/ RenderSynth
    \/ RenderWrite
    \/ ComputeStep
    \/ SaveStep
    \/ ReturnStep
    \/ Unwind

SpecPar == Init /\ [][NextPar]_vars

----------------------------------------------------------------------------
(* compute alone, on every config and every waveform of the bounds         *)

InitCompute ==
    /\ config \in AudioConfig
    /\ bankExists = TRUE
    /\ pipeline = "built"
    /\ ctorErr = None
    /\ existsChecks = 1
    /\ pc = "compute"
    /\ args = NoArgs
    /\ audio \in {Some(y) : y \in Waveforms}
    /\ fft_map = Nothing
    /\ exc = Nothing
    /\ err = Nothing
    /\ result = Nothing
    /\ files = [p \in FilePaths |-> NoFile]
    /\ filesAtCall = [p \in FilePaths |-> NoFile]
    /\ trace = <<"render", "render_ret">>
    /\ renderer_sample_rate = config.sample_rate
    /\ bankLoads = 0
    /\ prev = NoRecord
    /\ other = OtherIdle
    /\ ToolsUnused

NextCompute == ComputeStep

SpecCompute == InitCompute /\ [][NextCompute]_vars

----------------------------------------------------------------------------
(* musicxml-pdf: MusicXMLtoPDFConverter.__init__                           *)

LilyPondPath == "lilypond"
LilyPlaces == {"absent", "dir", "file"}

\* How subprocess.run([path, '--version'], timeout=15, check=True) can end.
VersionOutcomes ==
    {"exit0", "nonzero", "timeout", "not_found", "permission", "oserror"}

\* check=False: the exit code of the child is not looked at.
VerifyErrorUnchecked(outcome) ==
    CASE outcome \in {"exit0", "nonzero"} -> None
      [] outcome \in {"timeout", "oserror"} -> "RuntimeError"
      [] outcome = "not_found" -> "FileNotFoundError"
      [] outcome = "permission" -> "PermissionError"

\* _verify_lilypond_executable: the error it raises, None when it returns.
VerifyError(outcome) ==
    CASE outcome = "exit0" -> None
      [] outcome \in {"nonzero", "timeout", "oserror"} -> "RuntimeError"
      [] outcome = "not_found" -> "FileNotFoundError"
      [] outcome = "permission" -> "PermissionError"

\* __init__, lines 20-26: both fields None, then setup_lilypond_environment.
NewConverter ==
    /\ lily_pc = "none"
    /\ lily_pc' = "setup"
    /\ lilypond_path' = None
    /\ lily_err' = None
    /\ UNCHANGED <<lilyAt, versionRun, pdfs, cf, ms, input_files, results,
                   attempted, bc_pc>>
    /\ UNCHANGED <<pipelineVars, batchVars, scoreVars>>

\* setup_lilypond_environment, lines 30-39: os.path.exists, os.path.isfile.
SetupCheckPath ==
    /\ lily_pc = "setup"
    /\ IF lilyAt = "file"
       THEN lily_pc' = "verify" /\ lily_err' = lily_err
       ELSE lily_pc' = "raised" /\ lily_err' = "FileNotFoundError"
    /\ UNCHANGED <<lilyAt, lilypond_path, versionRun, pdfs, cf, ms, input_files,
                   results, attempted, bc_pc>>
    /\ UNCHANGED <<pipelineVars, batchVars, scoreVars>>

\* setup_lilypond_environment, line 43: the `--version` run.
VerifyExecutable(outcome) ==
    /\ lily_pc = "verify"
    /\ versionRun' = Some(outcome)
    /\ IF VerifyError(outcome) = None
       THEN lily_pc' = "assign" /\ lily_err' = lily_err
       ELSE lily_pc' = "raised" /\ lily_err' = VerifyError(outcome)
    /\ UNCHANGED <<lilyAt, lilypond_path, pdfs, cf, ms, input_files, results,
                   attempted, bc_pc>>
    /\ UNCHANGED <<pipelineVars, batchVars, scoreVars>>

\* setup_lilypond_environment, lines 44-47: self.lilypond_path is set.
SetupAssign ==
    /\ lily_pc = "assign"
    /\ lilypond_path' = LilyPondPath
    /\ lily_pc' = "built"
    /\ UNCHANGED <<lilyAt, lily_err, versionRun, pdfs, cf, ms, input_files,
                   results, attempted, bc_pc>>
    /\ UNCHANGED <<pipelineVars, batchVars, scoreVars>>

----------------------------------------------------------------------------
(* musicxml-pdf: convert_file and batch_convert                            *)

\* The input files: two scores, a file music21 cannot parse, no file.
InputFiles == {"a.xml", "bad.xml", "missing.xml"}
PdfNames == {"a.pdf", "bad.pdf", "old.pdf"}

\* input_file.with_suffix('.pdf')
OutputPdf(input) ==
    CASE input = "a.xml" -> "a.pdf"
      [] input = "bad.xml" -> "bad.pdf"
      [] input = "missing.xml" -> "missing.pdf"

\* The exit code of a child process that was killed.
Killed == -9

\* How the child process can end: within the timeout with an exit code, or
\* killed after it; with or without a PDF written to its output directory.
ChildRuns ==
    {r \in [timeout : BOOLEAN, code : {0, 1, Killed}, pdf : BOOLEAN] :
        r.timeout <=> r.code = Killed}

\* convert_file, lines 1536-1584: the PDF is looked for in the temporary
\* directory, then under the output name, then among all PDFs of the
\* directory (the newest is renamed); without one FileNotFoundError.
FindPdf(out, inTemp, newest, P) ==
    IF inTemp THEN [kind |-> "ok", value |-> out, pdfs |-> P \cup {out}]
    ELSE IF out \in P THEN [kind |-> "ok", value |-> out, pdfs |-> P]
    ELSE IF P # {} THEN [kind |-> "ok", value |-> out,
                         pdfs |-> (P \ {newest}) \cup {out}]
    ELSE [kind |-> "raise", error |-> "FileNotFoundError", pdfs |-> P]

\* convert_file, lines 1507-1526: the handler of an exception of the child
\* run goes on when a PDF with the output name lies in the output directory.
AfterChildError(out, inTemp, newest, P) ==
    IF out \in P THEN FindPdf(out, inTemp, newest, P)
    ELSE [kind |-> "raise", error |-> "RuntimeError", pdfs |-> P]

\* convert_file, lines 1480-1505: the child has ended.
AfterChild(out, run, newest, P) ==
    IF run.timeout THEN AfterChildError(out, run.pdf, newest, P)
    ELSE IF run.code # 0
         THEN IF run.pdf THEN FindPdf(out, FALSE, newest, P \cup {out})
              ELSE AfterChildError(out, FALSE, newest, P)
    ELSE FindPdf(out, run.pdf, newest, P)

\* convert_file(input_path): the path returned or the error raised, and the
\* PDFs of the output directory afterwards.
ConvertFile(input, run, newest, P) ==
    IF input = "missing.xml"
    THEN [kind |-> "raise", error |-> "FileNotFoundError", pdfs |-> P]
    ELSE IF input = "bad.xml"
    THEN [kind |-> "raise", error |-> "ConverterException", pdfs |-> P]
    ELSE AfterChild(OutputPdf(input), run, newest, P)

\* The newest PDF of the directory, whichever it is.
Newest(P) == IF P = {} THEN {None} ELSE P

\* A convert_file call and how it ended.
Call(input, run, r) ==
    [input |-> input, run |-> run,
     outcome |-> IF r.kind = "ok" THEN Ok(r.value) ELSE Raise("convert_file", r.error)]

\* convert_file called by the user of the converter.
ConvertFileCall(input, run, newest) ==
    /\ lily_pc = "built"
    /\ bc_pc = "idle"
    /\ LET r == ConvertFile(input, run, newest, pdfs)
       IN  cf' = Some(Call(input, run, r)) /\ pdfs' = r.pdfs
    /\ UNCHANGED <<lilyAt, lilypond_path, lily_pc, lily_err, versionRun, ms,
                   input_files, results, attempted, bc_pc>>
    /\ UNCHANGED <<pipelineVars, batchVars, scoreVars>>

RECURSIVE SeqsUpTo(_, _)
\* The sequences over S of length at most n.
SeqsUpTo(S, n) ==
    IF n = 0 THEN {<<>>}
    ELSE SeqsUpTo(S, n - 1) \cup
         {Append(q, x) : q \in {t \in SeqsUpTo(S, n - 1) : Len(t) = n - 1}, x \in S}

\* batch_convert, lines 1669-1675.
BatchConvert(fs) ==
    /\ lily_pc = "built"
    /\ bc_pc = "idle"
    /\ bc_pc' = "loop"
    /\ input_files' = fs
    /\ results' = <<>>
    /\ attempted' = <<>>
    /\ UNCHANGED <<lilyAt, lilypond_path, lily_pc, lily_err, versionRun, pdfs,
                   cf, ms>>
    /\ UNCHANGED <<pipelineVars, batchVars, scoreVars>>

\* The loop left at the first file whose conversion raises.
BatchIterationAborting(run, newest) ==
    /\ bc_pc = "loop"
    /\ Len(results) < Len(input_files)
    /\ LET input == input_files[Len(results) + 1]
           r == ConvertFile(input, run, newest, pdfs)
       IN  /\ cf' = Some(Call(input, run, r))
           /\ pdfs' = r.pdfs
           /\ attempted' = Append(attempted, Call(input, run, r))
           /\ IF r.kind = "ok"
              THEN results' = Append(results, r.value) /\ bc_pc' = bc_pc
              ELSE results' = results /\ bc_pc' = "returned"
    /\ UNCHANGED <<lilyAt, lilypond_path, lily_pc, lily_err, versionRun, ms,
                   input_files>>
    /\ UNCHANGED <<pipelineVars, batchVars, scoreVars>>

\* batch_convert, lines 1676-1688: one pass of the loop.
BatchIteration(run, newest) ==
    /\ bc_pc = "loop"
    /\ Len(results) < Len(input_files)
    /\ LET input == input_files[Len(results) + 1]
           r == ConvertFile(input, run, newest, pdfs)
       IN  /\ cf' = Some(Call(input, run, r))
           /\ pdfs' = r.pdfs
           /\ attempted' = Append(attempted, Call(input, run, r))
           /\ results' = Append(results, IF r.kind = "ok" THEN r.value ELSE None)
    /\ UNCHANGED <<lilyAt, lilypond_path, lily_pc, lily_err, versionRun, ms,
                   input_files, bc_pc>>
    /\ UNCHANGED <<pipelineVars, batchVars, scoreVars>>

\* batch_convert, lines 1689-1695: return results.
BatchReturn ==
    /\ bc_pc = "loop"
    /\ Len(results) = Len(input_files)
    /\ bc_pc' = "returned"
    /\ UNCHANGED <<lilyAt, lilypond_path, lily_pc, lily_err, versionRun, pdfs,
                   cf, ms, input_files, results, attempted>>
    /\ UNCHANGED <<pipelineVars, batchVars, scoreVars>>

----------------------------------------------------------------------------
(* musicxml-pdf: convert_musicxml_to_pdf (MuseScore)                       *)

\* convert_musicxml_to_pdf: False when a check before the run fails, when
\* the run times out or ends with a non-zero code, or when there is no
\* non-empty output file; True otherwise.
MuseScoreConvert(checks, run) ==
    checks /\ ~run.timeout /\ run.code = 0 /\ run.pdf

\* convert_musicxml_to_pdf called on an input file.
MuseScoreCall(checks, run) ==
    /\ ms' = Some([checks |-> checks, run |-> run,
                   result |-> MuseScoreConvert(checks, run)])
    /\ UNCHANGED <<lilyAt, lilypond_path, lily_pc, lily_err, versionRun, pdfs,
                   cf, input_files, results, attempted, bc_pc>>
    /\ UNCHANGED <<pipelineVars, batchVars, scoreVars>>

\* The pipeline, not used.
PipelineUnused ==
    /\ config = [sample_rate |-> SampleRate, n_fft |-> 4, hop_length |-> 2,
                 win_length |-> 4, n_mels |-> MaxMels, use_mel |-> TRUE,
                 log_scale |-> TRUE]
    /\ bankExists = TRUE
    /\ pipeline = "none"
    /\ ctorErr = None
    /\ existsChecks = 0
    /\ pc = "idle"
    /\ args = NoArgs
    /\ audio = Nothing
    /\ fft_map = Nothing
    /\ exc = Nothing
    /\ err = Nothing
    /\ result = Nothing
    /\ files = [p \in FilePaths |-> NoFile]
    /\ filesAtCall = [p \in FilePaths |-> NoFile]
    /\ trace = <<>>
    /\ renderer_sample_rate = 0
    /\ bankLoads = 0
    /\ prev = NoRecord
    /\ other = OtherIdle

InitEngraver ==
    /\ PipelineUnused
    /\ BatchUnused
    /\ ScoreUnused
    /\ lilyAt \in LilyPlaces
    /\ lilypond_path = None
    /\ lily_pc = "none"
    /\ lily_err = None
    /\ versionRun = Nothing
    /\ pdfs \in {{}, {"old.pdf"}}
    /\ cf = Nothing
    /\ ms = Nothing
    /\ input_files = <<>>
    /\ results = <<>>
    /\ attempted = <<>>
    /\ bc_pc = "idle"

NextEngraver ==
    \/ NewConverter
    \/ SetupCheckPath
    \/ \E o \in VersionOutcomes : VerifyExecutable(o)
    \/ SetupAssign
    \/ \E i \in InputFiles, r \in ChildRuns, n \in Newest(pdfs) : ConvertFileCall(i, r, n)
    \/ \E fs \in SeqsUpTo(InputFiles, MaxFiles) : BatchConvert(fs)
    \/ \E r \in ChildRuns, n \in Newest(pdfs) : BatchIteration(r, n)
    \/ BatchReturn
    \/ \E c \in BOOLEAN, r \in ChildRuns : MuseScoreCall(c, r)

SpecEngraver == InitEngraver /\ [][NextEngraver]_vars

----------------------------------------------------------------------------
(* midi-musicxml: main with --directory, and convert_batch                 *)

\* The entries of the input directory: a MIDI file, one with an upper-case
\* extension, a text file and a subdirectory.
DirEntries == {"s.mid", "t.MID", "n.txt", "sub"}

\* os.path.isfile
IsFile(f) == f # "sub"

\* os.path.splitext(filepath)[1].lower()
LowerExt(f) ==
    CASE f = "s.mid" -> ".mid"
      [] f = "t.MID" -> ".mid"
      [] f = "n.txt" -> ".txt"
      [] f = "sub" -> ""

\* self.midi_extensions as __init__ sets it.
MidiExtensions == {".mid", ".midi", ".MID", ".MIDI"}

\* is_midi_file(filepath), on the extensions the converter holds.
IsMidiFile(f, exts) == LowerExt(f) \in exts

RECURSIVE Select(_, _, _)
\* The entries of the listing that are regular files and, where midiOnly,
\* MIDI files by is_midi_file, in the order of the listing.
Select(l, exts, midiOnly) ==
    IF l = <<>> THEN <<>>
    ELSE LET rest == Select(Tail(l), exts, midiOnly)
         IN  IF IsFile(Head(l)) /\ (midiOnly => IsMidiFile(Head(l), exts))
             THEN <<Head(l)>> \o rest ELSE rest

\* The listings of a directory: its entries, each once, in any order.
Listings ==
    {l \in SeqsUpTo(DirEntries, MaxEntries) :
        \A i \in 1..Len(l) : \A j \in 1..Len(l) : i # j => l[i] # l[j]}

\* main, lines 126-133 and 167-171: the converter is built, --all-files
\* empties its midi_extensions, and convert_batch is called.
Main ==
    /\ cb_pc = "none"
    /\ midi_extensions' = IF all_files THEN {} ELSE MidiExtensions
    /\ cb_pc' = "collect"
    /\ UNCHANGED <<listing, all_files, midi_files, successful, failed, tried,
                   prompts>>
    /\ UNCHANGED <<pipelineVars, engraverVars, scoreVars>>

\* convert_batch, lines 116-128: the files are collected.
Collect ==
    /\ cb_pc = "collect"
    /\ midi_files' = Select(listing, midi_extensions, TRUE)
    /\ cb_pc' = IF Select(listing, midi_extensions, TRUE) = <<>> THEN "ask" ELSE "loop"
    /\ UNCHANGED <<listing, all_files, midi_extensions, successful, failed,
                   tried, prompts>>
    /\ UNCHANGED <<pipelineVars, engraverVars, scoreVars>>

\* convert_batch, lines 130-157: no file was collected; the user is asked
\* whether to look for other files and, after a yes, whether to convert all.
AskForOtherFiles(look, convertAll) ==
    /\ cb_pc = "ask"
    /\ prompts' = IF look THEN prompts + 2 ELSE prompts + 1
    /\ midi_files' = IF look /\ convertAll
                     THEN Select(listing, midi_extensions, FALSE) ELSE midi_files
    /\ cb_pc' = IF look /\ convertAll /\ Select(listing, midi_extensions, FALSE) # <<>>
                THEN "loop" ELSE "returned"
    /\ UNCHANGED <<listing, all_files, midi_extensions, successful, failed, tried>>
    /\ UNCHANGED <<pipelineVars, engraverVars, scoreVars>>

\* convert_single_file, lines 47-101: the user is asked about a file that
\* is_midi_file rejects; the output path when the file was converted, None
\* when the user declined or the conversion raised.
ConvertSingleFile(f, exts, confirmed, converts) ==
    IF ~IsMidiFile(f, exts) /\ ~confirmed THEN None
    ELSE IF converts THEN "musicxml" ELSE None

\* The prompts of one convert_single_file call.
PromptsOf(f, exts) == IF IsMidiFile(f, exts) THEN 0 ELSE 1

\* The loop left at the first file that is not converted.
ConvertNextStopping(confirmed, converts) ==
    /\ cb_pc = "loop"
    /\ Len(tried) < Len(midi_files)
    /\ LET f == midi_files[Len(tried) + 1]
           r == ConvertSingleFile(f, midi_extensions, confirmed, converts)
       IN  /\ tried' = Append(tried, [file |-> f, result |-> r])
           /\ prompts' = prompts + PromptsOf(f, midi_extensions)
           /\ successful' = IF r # None THEN successful + 1 ELSE successful
           /\ failed' = failed
           /\ cb_pc' = IF r # None THEN cb_pc ELSE "returned"
    /\ UNCHANGED <<listing, all_files, midi_extensions, midi_files>>
    /\ UNCHANGED <<pipelineVars, engraverVars, scoreVars>>

\* convert_batch, lines 165-184: one pass of the loop.
ConvertNext(confirmed, converts) ==
    /\ cb_pc = "loop"
    /\ Len(tried) < Len(midi_files)
    /\ LET f == midi_files[Len(tried) + 1]
           r == ConvertSingleFile(f, midi_extensions, confirmed, converts)
       IN  /\ tried' = Append(tried, [file |-> f, result |-> r])
           /\ prompts' = prompts + PromptsOf(f, midi_extensions)
           /\ successful' = IF r # None THEN successful + 1 ELSE successful
           /\ failed' = IF r # None THEN failed ELSE failed + 1
    /\ UNCHANGED <<listing, all_files, midi_extensions, midi_files, cb_pc>>
    /\ UNCHANGED <<pipelineVars, engraverVars, scoreVars>>

\* convert_batch, lines 186-192: the statistics are printed.
BatchEnd ==
    /\ cb_pc = "loop"
    /\ Len(tried) = Len(midi_files)
    /\ cb_pc' = "returned"
    /\ UNCHANGED <<listing, all_files, midi_extensions, midi_files, successful,
                   failed, tried, prompts>>
    /\ UNCHANGED <<pipelineVars, engraverVars, scoreVars>>

InitBatch ==
    /\ PipelineUnused
    /\ EngraverUnused
    /\ ScoreUnused
    /\ listing \in Listings
    /\ all_files \in BOOLEAN
    /\ midi_extensions = {}
    /\ midi_files = <<>>
    /\ successful = 0
    /\ failed = 0
    /\ tried = <<>>
    /\ prompts = 0
    /\ cb_pc = "none"

NextBatch ==
    \/ Main
    \/ Collect
    \/ \E look \in BOOLEAN, convertAll \in BOOLEAN : AskForOtherFiles(look, convertAll)
    \/ \E confirmed \in BOOLEAN, converts \in BOOLEAN : ConvertNext(confirmed, converts)
    \/ BatchEnd

SpecBatch == InitBatch /\ [][NextBatch]_vars

----------------------------------------------------------------------------
(* midi-musicxml: enhance_score, the durations of the notes                *)

\* The if/elif chain with <= in place of <.
QuantizeInclusive(q) ==
    IF q <= 4 THEN 2
    ELSE IF q <= 8 THEN 4
    ELSE IF q <= 16 THEN 8
    ELSE IF q <= 32 THEN 16
    ELSE 32

\* enhance_score, lines 216-226, in eighths of a quarter note: 0.5 is 4,
\* 0.25 is 2.
Quantize(q) ==
    IF q < 4 THEN 2
    ELSE IF q < 8 THEN 4
    ELSE IF q < 16 THEN 8
    ELSE IF q < 32 THEN 16
    ELSE 32

\* enhance_score(score): every note gets its quantized duration.
EnhanceScore ==
    /\ passes < MaxPasses
    /\ durations' = [i \in 1..Len(durations) |-> Quantize(durations[i])]
    /\ passes' = passes + 1
    /\ UNCHANGED <<pipelineVars, engraverVars, batchVars>>

InitScore ==
    /\ PipelineUnused
    /\ EngraverUnused
    /\ BatchUnused
    /\ durations \in SeqsUpTo(0..MaxDuration, MaxNotes)
    /\ passes = 0

NextScore == EnhanceScore

SpecScore == InitScore /\ [][NextScore]_vars

----------------------------------------------------------------------------
(* Claims                                                                  *)

\* The place of the first event e in the trace of the call, 0 if it is not there.
Position(e) ==
    IF \E i \in 1..Len(trace) : trace[i] = e
    THEN CHOOSE i \in 1..Len(trace) : trace[i] = e /\ \A j \in 1..(i - 1) : trace[j] # e
    ELSE 0

\* Event b, if it has happened, happened after event a.
Before(a, b) == Position(b) > 0 => (Position(a) > 0 /\ Position(a) < Position(b))

\* The output files the call has changed so far.
Changed == {p \in FilePaths : files[p] # filesAtCall[p]}

\* C1: a process call runs render, then compute, then the optional save of the
\* feature file, then the return: compute starts only after render has
\* returned, on the whole waveform render produced, and the feature file is
\* written only after compute has returned.
C1_StagesInOrder ==
    /\ Before("render_ret", "compute")
    /\ Before("compute_ret", "save")
    /\ Before("compute_ret", "return")
    /\ Position("return") > 0 => Position("return") = Len(trace)
    /\ Position("save_ret") > 0 => Before("save_ret", "return")
    /\ pc = "compute" => /\ trace[Len(trace)] = "render_ret"
                         /\ audio = Some(Synthesized(args.midi_path, renderer_sample_rate))
    /\ "out.npy" \in Changed => Position("compute_ret") > 0 /\ fft_map # Nothing

C1_Witness ==
    /\ pc = "returned"
    /\ trace = <<"render", "render_ret", "compute", "compute_ret", "save",
                 "save_ret", "return">>
    /\ Changed = {"out.wav", "out.npy"}

\* compute has returned an array / has raised.
ComputeReturned == fft_map # Nothing

\* A valid config: the constraints of the spec's data model.
ValidConfig(cfg) ==
    /\ cfg.sample_rate > 0 /\ cfg.n_fft > 0 /\ cfg.hop_length > 0
    /\ cfg.win_length > 0 /\ cfg.n_mels > 0
    /\ cfg.hop_length <= cfg.n_fft
    /\ cfg.win_length <= cfg.n_fft
ComputeRaised == exc # Nothing /\ exc[1].stage = "compute"

\* The entries of an array.
Entries(S) == {S[k][t] : k \in DOMAIN S, t \in DOMAIN S[1]}

\* frequency_bins as the shape law states it.
LawBins(cfg) == IF cfg.use_mel THEN cfg.n_mels ELSE 1 + cfg.n_fft \div 2

\* C2, as stated: for every waveform of length L >= 1 and every valid config the
\* array compute returns has floor(L / hop_length) + 1 time frames, and n_mels
\* (mel) or 1 + n_fft // 2 (linear) frequency bins.
C2_ShapeLawAsStated ==
    (ComputeReturned /\ Len(audio[1]) >= 1 /\ ValidConfig(config)) =>
        Shape(fft_map[1]) = <<LawBins(config), Len(audio[1]) \div config.hop_length + 1>>

\* C2, amended: compute returns an array for every finite waveform of length
\* L >= 1; it has floor(L / hop_length) + 1 time frames when n_fft is even and
\* floor((L - 1) / hop_length) + 1 when n_fft is odd, and n_mels (mel) or
\* 1 + n_fft // 2 (linear) frequency bins.
C2_ShapeLaw ==
    /\ (pc # "compute" /\ Len(audio[1]) >= 1 /\ IsFinite(audio[1])
        /\ ValidConfig(config)) => ComputeReturned
    /\ (ComputeReturned /\ Len(audio[1]) >= 1) =>
          Shape(fft_map[1]) =
              <<LawBins(config),
                (Len(audio[1]) - (config.n_fft % 2)) \div config.hop_length + 1>>

C2_Witness ==
    /\ ComputeReturned
    /\ config.n_fft = 3 /\ config.hop_length = 2 /\ Len(audio[1]) = 2
    /\ config.use_mel
    /\ Shape(fft_map[1]) = <<config.n_mels, 1>>

\* The positions of a frame the window of win_length lies on.
WindowSlots(cfg) ==
    LET lpad == (cfg.n_fft - cfg.win_length) \div 2
    IN  (lpad + 1)..(lpad + cfg.win_length)

\* The samples of the waveform (1-based) that frame t reads under its window.
CoveredSamples(cfg, L, t) ==
    {FrameIndex(L, cfg.n_fft, cfg.hop_length, t)[n] : n \in WindowSlots(cfg)} \ {0}

\* C3, as stated: frame i covers exactly the samples [i*hop_length,
\* i*hop_length + win_length) of the waveform, and no padding is added before
\* sample 0.
C3_LeftAlignedAsStated ==
    (ComputeReturned /\ Len(audio[1]) >= 1) =>
        /\ \A t \in 0..(Shape(fft_map[1])[2] - 1) :
              CoveredSamples(config, Len(audio[1]), t) =
                 {s \in 1..Len(audio[1]) :
                    t * config.hop_length + 1 <= s
                    /\ s <= t * config.hop_length + config.win_length}
        /\ FrameIndex(Len(audio[1]), config.n_fft, config.hop_length, 0)[1] = 1

\* Sample n (1-based) of frame t under centered framing: the sample of y at
\* t*hop_length - n_fft // 2 + n, or zero outside y.
CenteredSample(y, cfg, t, n) ==
    LET s == t * cfg.hop_length - cfg.n_fft \div 2 + n
    IN  IF s >= 1 /\ s <= Len(y) THEN y[s] ELSE 0

\* C3, amended: framing is centered. Frame i covers the n_fft samples
\* [i*hop_length - n_fft//2, i*hop_length - n_fft//2 + n_fft) of the waveform,
\* the window of win_length centered in them; what lies before sample 0 or
\* after the last sample is zero padding, so frame 0 starts with n_fft//2
\* padded zeros.
C3_CenteredFraming ==
    (ComputeReturned /\ Len(audio[1]) >= 1) =>
        \A t \in 0..(Shape(fft_map[1])[2] - 1) :
            /\ \A n \in 1..config.n_fft :
                  LET i == FrameIndex(Len(audio[1]), config.n_fft, config.hop_length, t)[n]
                      s == t * config.hop_length - config.n_fft \div 2 + n
                  IN  i = IF s >= 1 /\ s <= Len(audio[1]) THEN s ELSE 0
            /\ (~config.use_mel /\ ~config.log_scale) =>
                  \A k \in 1..NumBins(config.n_fft) :
                      fft_map[1][k][t + 1] =
                          ISqrt(PowerBin(
                              [n \in 1..config.n_fft |->
                                  PadCenter(HannWindow(config.win_length), config.n_fft)[n]
                                  * CenteredSample(audio[1], config, t, n)],
                              k - 1))

C3_Witness ==
    /\ ComputeReturned
    /\ ~config.use_mel /\ ~config.log_scale
    /\ config.n_fft = 4 /\ config.win_length = 2 /\ config.hop_length = 2
    /\ audio[1] = <<1, 1, -1>>
    /\ FrameIndex(3, 4, 2, 0) = <<0, 0, 1, 2>>
    /\ fft_map[1] = <<<<4, 4>>, <<4, 4>>, <<4, 4>>>>

\* C4: with log_scale every value compute returns is <= 0 and >= -80; without
\* log_scale every value is >= 0.
C4_RangeLaw ==
    ComputeReturned =>
        \A v \in Entries(fft_map[1]) :
            IF config.log_scale THEN v <= 0 /\ v >= -80 ELSE v >= 0

C4_Witness ==
    /\ ComputeReturned
    /\ config.log_scale
    /\ -80 \in Entries(fft_map[1])
    /\ 0 \in Entries(fft_map[1])
    /\ \E k \in DOMAIN Spectrogram(audio[1], config) :
         \E t \in DOMAIN Spectrogram(audio[1], config)[k] :
            DbOf(Spectrogram(audio[1], config)[k][t])
               - DbOf(MaxOf(Spectrogram(audio[1], config))) < -80

\* C5: compute raises an invalid-input error whenever the waveform is empty or
\* holds a NaN/Inf sample, and returns no array for it.
C5_InvalidInputRaises ==
    (pc # "compute" /\ (Len(audio[1]) = 0 \/ ~IsFinite(audio[1]))) =>
        ComputeRaised /\ exc[1].error = "ParameterError" /\ ~ComputeReturned

C7_MissingScoreWritesNothing ==
    args.midi_path = "missing.mid" =>
        /\ files = filesAtCall
        /\ result = Nothing
        /\ pc \in {"render_parse", "unwind", "raised"}
        /\ pc = "raised" => err[1].error = "FileNotFoundError"

C7_Witness ==
    /\ pc = "raised"
    /\ args = [midi_path |-> "missing.mid", output_wav |-> "out.wav",
               output_fft |-> "out.npy"]
    /\ err = Some(Raise("render", "FileNotFoundError"))
    /\ files = [p \in FilePaths |-> NoFile]

\* C8: when render is given a destination path and writing the waveform file
\* fails, render still returns the waveform and does not raise.
C8_WavWriteFailureNonFatal ==
    (Given(args.output_wav) /\ ~Writable(args.output_wav) /\ audio # Nothing
     /\ pc # "render_write") =>
        /\ Position("render_ret") > 0
        /\ ~(exc # Nothing /\ exc[1].stage = "render")

\* C9: when saving the feature map fails, process does not fail: the array
\* compute returned is still returned to the caller.
C9_SaveFailureNonFatal ==
    ComputeReturned =>
        /\ pc \notin {"unwind", "raised"}
        /\ exc = Nothing
        /\ pc = "returned" => result = fft_map

\* C10: an error raised by render or by compute ends the call: no later stage
\* runs, nothing is returned, and the caller receives that very error.
C10_ErrorsPropagateUnchanged ==
    /\ pc = "raised" =>
          /\ err = exc
          /\ result = Nothing
          /\ Position("return") = 0
          /\ exc[1].stage = "render" =>
                /\ fft_map = Nothing
                /\ Position("compute") = 0 /\ Position("save") = 0
                /\ "out.npy" \notin Changed
          /\ exc[1].stage = "compute" =>
                /\ fft_map = Nothing
                /\ Position("save") = 0
                /\ "out.npy" \notin Changed
    /\ exc # Nothing => pc \in {"unwind", "raised"}

C10_Witness ==
    /\ pc = "raised"
    /\ exc = Some(Raise("compute", "ParameterError"))
    /\ err = Some(Raise("compute", "ParameterError"))
    /\ args.output_fft = "out.npy"

\* The error kinds render raises for a score that cannot be parsed, and for
\* parsed events the synthesis engine cannot process.
ParseErrorKinds ==
    {ParseMidi(p).error : p \in {q \in MidiPaths : ParseMidi(q).kind = "raise"}}
SynthErrorKinds ==
    {FluidSynth(p, SampleRate, b).error :
        <<p, b>> \in {x \in {q \in MidiPaths : ParseMidi(q).kind = "ok"} \X BOOLEAN :
                        FluidSynth(x[1], SampleRate, x[2]).kind = "raise"}}

\* C11: render fails with one error kind when the score cannot be parsed and
\* with a distinct error kind when the engine cannot synthesize the parsed
\* events: the kind alone tells the caller which of the two happened.
C11_ParseAndSynthesisKindsDistinct ==
    (exc # Nothing /\ exc[1].stage = "render" /\ audio = Nothing) =>
        IF ParseMidi(args.midi_path).kind = "raise"
        THEN exc[1].error \notin SynthErrorKinds
        ELSE exc[1].error \notin ParseErrorKinds

\* C12: AudioConfig is immutable once built: an assignment to a field of an
\* existing instance fails or changes nothing, so no step changes the config.
C12_ConfigImmutable == [][config' = config]_vars

\* C13: on a built pipeline the rate the renderer synthesizes at equals the
\* sample_rate the processor reads from the config.
C13_SampleRatesAgree ==
    pipeline = "built" => renderer_sample_rate = config.sample_rate

\* There is a record of an earlier call that ended.
HasPrev == Len(prev) = 1

\* C14: a call's returned array is determined by the score, the renderer and
\* the config alone: it is the transform of the synthesized score whatever
\* calls came before, and a call on the same score returns the array the
\* previous call on it returned.
C14_Deterministic ==
    /\ pc = "returned" =>
          /\ Compute(config, Synthesized(args.midi_path, renderer_sample_rate)).kind = "ok"
          /\ result = Some(Compute(config,
                                   Synthesized(args.midi_path, renderer_sample_rate)).value)
    /\ (pc = "return" /\ HasPrev /\ prev[1].args.midi_path = args.midi_path
        /\ prev[1].result # Nothing) => fft_map = prev[1].result

C14_Witness ==
    /\ pc = "return"
    /\ HasPrev
    /\ args.midi_path = "song.mid"
    /\ prev[1].args.midi_path = "song.mid"
    /\ prev[1].args # args
    /\ prev[1].files["out.wav"] # NoFile
    /\ fft_map # Nothing
    /\ fft_map = prev[1].result

\* C15: a call with the arguments of the call before it ends as that one did:
\* the output files hold what they held after the first call, and the same
\* array is returned (or the same error raised).
C15_Idempotent ==
    /\ (pc = "return" /\ HasPrev /\ prev[1].args = args) =>
          files = prev[1].files /\ fft_map = prev[1].result
    /\ (pc = "unwind" /\ HasPrev /\ prev[1].args = args) =>
          files = prev[1].files /\ exc = prev[1].err

C15_Witness ==
    /\ pc = "return"
    /\ HasPrev
    /\ prev[1].args = args
    /\ args = [midi_path |-> "song.mid", output_wav |-> "out.wav", output_fft |-> "out"]
    /\ files["out.wav"] # NoFile /\ files["out.npy"] # NoFile
    /\ files = prev[1].files

\* How often event e occurs in the trace of the call.
Count(e) == Cardinality({i \in 1..Len(trace) : trace[i] = e})

\* C16: every process call that returns, a repeated call with the same
\* arguments included, has invoked render once and compute once.
C16_NoCaching ==
    pc \in {"return", "returned"} =>
        /\ Count("render") = 1 /\ Count("render_ret") = 1
        /\ Count("compute") = 1 /\ Count("compute_ret") = 1

C16_Witness ==
    /\ pc = "return"
    /\ HasPrev
    /\ prev[1].args = args
    /\ prev[1].result # Nothing
    /\ Count("render") = 1 /\ Count("compute") = 1

\* C17: after a successful return of a call given output_fft, the file at the
\* very path the caller passed holds the returned array; without output_fft
\* no feature file is written.
C17_SavedAtGivenPath ==
    pc = "returned" =>
        IF Given(args.output_fft)
        THEN files[args.output_fft] = <<"npy", result[1]>>
        ELSE Changed \subseteq {"out.wav"}

\* C18: once render has returned, the file at output_wav holds the rendered
\* waveform at the renderer's sample rate when a path was supplied, and the
\* waveform file is as it was at the call when none was; a call never changes
\* the waveform file unless it was given its path.
C18_WavWrittenIffGiven ==
    /\ Position("render_ret") > 0 =>
          IF Given(args.output_wav)
          THEN files[args.output_wav] = <<"wav", renderer_sample_rate, audio[1]>>
          ELSE files["out.wav"] = filesAtCall["out.wav"]
    /\ "out.wav" \in Changed => args.output_wav = "out.wav"

C18_Witness ==
    /\ pc = "returned"
    /\ args.output_wav = "out.wav"
    /\ renderer_sample_rate = 2 * SampleRate
    /\ audio # Nothing /\ audio[1] # <<>>
    /\ files["out.wav"] = <<"wav", 2 * SampleRate, audio[1]>>

\* C19: over any sequence of render calls on one renderer the sample bank is
\* loaded at most once.
C19_BankLoadedOnce == bankLoads <= 1

\* What a call with arguments a comes to when it runs alone on this pipeline,
\* the bank present: the error of a score that cannot be read, or the transform
\* of the synthesized score.
Alone(a) ==
    IF ParseMidi(a.midi_path).kind = "raise" THEN ParseMidi(a.midi_path)
    ELSE Compute(config, Synthesized(a.midi_path, renderer_sample_rate))

\* An invocation at p with arguments a, result r and error e has ended as the
\* call alone ends, its files included.
EndedAsAlone(p, a, r, e) ==
    /\ p = "returned" =>
          /\ Alone(a).kind = "ok"
          /\ r = Some(Alone(a).value)
          /\ Given(a.output_wav) =>
                files[a.output_wav] =
                    <<"wav", renderer_sample_rate,
                      Synthesized(a.midi_path, renderer_sample_rate)>>
          /\ Given(a.output_fft) =>
                files[NpyName(a.output_fft)] = <<"npy", Alone(a).value>>
    /\ p = "raised" =>
          /\ Alone(a).kind = "raise"
          /\ e = Some(Propagate(Alone(a)))

\* C20: however two process calls on different scores and different output
\* paths interleave, each ends with the array (or error) and the files of the
\* call run alone, and no file is written that neither call names.
C20_ConcurrentAsSequential ==
    /\ EndedAsAlone(pc, args, result, err)
    /\ EndedAsAlone(other.pc, other.args, other.result, other.err)
    /\ \A p \in FilePaths :
          files[p] # NoFile =>
              p \in {args.output_wav, NpyName(args.output_fft),
                     other.args.output_wav, NpyName(other.args.output_fft)}

\* Both calls were made before either had written a file, and both returned.
C20_Witness ==
    /\ pc = "returned" /\ other.pc = "returned"
    /\ args.midi_path = "song.mid" /\ other.args.midi_path = "silent.mid"
    /\ filesAtCall = [p \in FilePaths |-> NoFile]
    /\ files["out.wav"] # NoFile /\ files["out.npy"] # NoFile
    /\ files["b.wav"] # NoFile /\ files["b.npy"] # NoFile
    /\ result # other.result

\* C21: a process call that raises leaves the pipeline's config, renderer and
\* processor as they were, and a call that follows a failed call returns the
\* transform of its synthesized score, the array it returns on a pipeline
\* where no call has failed.
C21_FailureFatalToThatCallOnly ==
    /\ []((pc = "return" /\ HasPrev /\ prev[1].err # Nothing) =>
            fft_map = Some(Compute(config,
                                   Synthesized(args.midi_path, SampleRate)).value))
    /\ [][pc' = "raised" =>
            /\ config' = config
            /\ renderer_sample_rate' = renderer_sample_rate
            /\ renderer_sample_rate' = SampleRate
            /\ pipeline' = pipeline /\ pipeline' = "built"]_vars

C21_Witness ==
    /\ pc = "return"
    /\ HasPrev
    /\ prev[1].err # Nothing
    /\ prev[1].err[1].stage = "save"
    /\ prev[1].files["out.wav"] # NoFile
    /\ args.midi_path = "song.mid"
    /\ fft_map # Nothing

\* C22: the config the processor holds satisfies the constraints of the data
\* model: the sizes are positive integers, hop_length <= n_fft and
\* win_length <= n_fft.
C22_ConfigConstraints == pipeline = "built" => ValidConfig(config)

\* 20*log10(v / ref), rounded as the decibels of the model are, and clamped at
\* the floor of -80 dB.
TwentyLog10Ratio(v, ref) == Max(2 * (DbOf(v) - DbOf(ref)), -TopDb)

\* C23: with log_scale, on the mel path and on the linear-frequency magnitude
\* path alike, every value compute returns is 20*log10(value / max(value)) of
\* the magnitude (or mel-band energy) map, clamped at the floor.
C23_TwentyLogOfMap ==
    (ComputeReturned /\ config.log_scale) =>
        LET S == Spectrogram(audio[1], config)
        IN  \A k \in DOMAIN S : \A t \in DOMAIN S[k] :
                fft_map[1][k][t] = TwentyLog10Ratio(S[k][t], MaxOf(S))

\* C24: lilypond_path is set only on a converter whose construction has ended,
\* for a path that is a regular file and whose `--version` run exited with
\* code 0 within the timeout; a construction that raised has set no
\* lilypond_path.
C24_HealthCheckedAtConstruction ==
    /\ lilypond_path # None =>
          /\ lily_pc = "built"
          /\ lilyAt = "file"
          /\ versionRun = Some("exit0")
    /\ lily_pc = "built" => lilypond_path = LilyPondPath /\ lily_err = None
    /\ lily_pc = "raised" => lilypond_path = None /\ lily_err # None
    /\ (versionRun # Nothing /\ versionRun # Some("exit0")) => lily_pc = "raised"
    /\ (lilyAt # "file" /\ lily_pc \notin {"none", "setup"}) => lily_pc = "raised"

C24_Witness ==
    /\ lily_pc = "built"
    /\ lilypond_path = LilyPondPath
    /\ versionRun = Some("exit0")

\* C25: a child process that ends with a non-zero exit code makes the
\* conversion fail: convert_file raises and convert_musicxml_to_pdf returns
\* False, whether or not a PDF file was produced.
C25_NonZeroExitFails ==
    /\ (cf # Nothing /\ cf[1].input = "a.xml" /\ cf[1].run.code # 0) =>
          cf[1].outcome.kind = "raise"
    /\ (ms # Nothing /\ ms[1].checks /\ ms[1].run.code # 0) => ms[1].result = FALSE

\* C28: batch_convert has handed each input to convert_file once, in order,
\* up to the place it has reached; each entry of results is the path that
\* call returned, or None when it raised; when batch_convert returns, results
\* is as long as input_files.
C28_BatchNeverAborts ==
    bc_pc \in {"loop", "returned"} =>
        /\ Len(results) <= Len(input_files)
        /\ Len(attempted) = Len(results)
        /\ \A i \in 1..Len(results) :
              /\ attempted[i].input = input_files[i]
              /\ results[i] = IF attempted[i].outcome.kind = "ok"
                              THEN attempted[i].outcome.value ELSE None
        /\ bc_pc = "returned" => Len(results) = Len(input_files)

C28_Witness ==
    /\ bc_pc = "returned"
    /\ Len(input_files) = MaxFiles
    /\ results[1] = None
    /\ results[MaxFiles] = "a.pdf"

\* The regular files of the listing, in its order.
RegularFiles == Select(listing, {}, FALSE)

\* C26: with --all-files convert_batch collects every regular file of the
\* directory and hands each to convert_single_file, and the user is never
\* asked to confirm.
C26_AllFilesConvertsAll ==
    (all_files /\ RegularFiles # <<>>) =>
        /\ prompts = 0
        /\ cb_pc \in {"loop", "returned"} => midi_files = RegularFiles
        /\ cb_pc = "returned" =>
              [i \in 1..Len(tried) |-> tried[i].file] = RegularFiles

\* C29: convert_batch hands the collected files to convert_single_file once
\* each, in the order they were collected; successful + failed is the number
\* of files attempted so far, and len(midi_files) when the loop has ended; a
\* file that is not converted does not end the loop.
C29_BatchCounters ==
    /\ successful + failed = Len(tried)
    /\ Len(tried) <= Len(midi_files)
    /\ \A i \in 1..Len(tried) : tried[i].file = midi_files[i]
    /\ successful = Cardinality({i \in 1..Len(tried) : tried[i].result # None})
    /\ cb_pc = "returned" =>
          Len(tried) = Len(midi_files) /\ successful + failed = Len(midi_files)

C29_Witness ==
    /\ cb_pc = "returned"
    /\ Len(midi_files) = MaxEntries
    /\ tried[1].result = None
    /\ tried[MaxEntries].result # None
    /\ failed >= 1 /\ successful >= 1

\* C30: a run of enhance_score gives every note a duration among 0.25, 0.5, 1,
\* 2 and 4 quarters (q < 0.5 -> 0.25, q < 1 -> 0.5, q < 2 -> 1, q < 4 -> 2,
\* otherwise 4); a note no longer than another is no longer afterwards; a
\* second run changes no duration.
C30_QuantizationLaw ==
    [][passes' = passes + 1 =>
        /\ Len(durations') = Len(durations)
        /\ \A i \in 1..Len(durations) :
              /\ durations'[i] \in {2, 4, 8, 16, 32}
              /\ durations[i] < 4 => durations'[i] = 2
              /\ (4 <= durations[i] /\ durations[i] < 8) => durations'[i] = 4
              /\ (8 <= durations[i] /\ durations[i] < 16) => durations'[i] = 8
              /\ (16 <= durations[i] /\ durations[i] < 32) => durations'[i] = 16
              /\ 32 <= durations[i] => durations'[i] = 32
        /\ \A i \in 1..Len(durations) : \A j \in 1..Len(durations) :
              durations[i] <= durations[j] => durations'[i] <= durations'[j]
        /\ passes >= 1 => durations' = durations]_vars

C30_Witness ==
    /\ passes = 2
    /\ durations = <<4, 32>>

\* C27: within a call the feature file is saved only after render and compute
\* have both returned; a call in which compute raised after a render that was
\* given output_wav ends with the waveform file on disk and no feature file
\* written.
C27_SaveOnlyAfterRenderAndCompute ==
    /\ Position("save") > 0 =>
          /\ Before("render_ret", "save") /\ Before("compute_ret", "save")
          /\ Position("render_raise") = 0 /\ Position("compute_raise") = 0
    /\ (Changed \cap {"out.npy", "out"}) # {} => Position("save_ret") > 0
    /\ (pc = "raised" /\ exc[1].stage = "compute") =>
          /\ (Changed \cap {"out.npy", "out"}) = {}
          /\ Given(args.output_wav) =>
                files[args.output_wav] = <<"wav", renderer_sample_rate, audio[1]>>

C27_Witness ==
    /\ pc = "raised"
    /\ exc[1].stage = "compute"
    /\ args.output_wav = "out.wav"
    /\ args.output_fft = "out.npy"
    /\ files["out.wav"] = <<"wav", renderer_sample_rate, audio[1]>>
    /\ files["out.npy"] = NoFile

====
